---- MODULE Spec2Model ----
(***************************************************************************)
(* Model of the pygamengn network client: the table-driven finite state    *)
(* machine (network/fsm.py) and the selector-driven Client session         *)
(* (network/client.py).  ProtoMessage, ProtoReader and ProtoWriter are     *)
(* imported by client.py; their behaviour is modelled from the design      *)
(* document (sections 4.2 - 4.4).                                          *)
(***************************************************************************)
EXTENDS Integers, Sequences, FiniteSets, TLC

VARIABLES
    fsm_state,        \* Client.__fsm.__state
    socket,           \* Client.__socket: "open" or "None"
    selector,         \* Client.__selector: [closed, registered, events]
    proto_message,    \* Client.__proto_message
    processed_count,  \* Client.__processed_count
    reader,           \* Client.__reader: [buf, obj]
    rx,               \* bytes sent by the server and not yet received
    last,             \* outcome of the last call made on the client
    tx,               \* kind of the message sent whole and not yet answered
    t_table,          \* FiniteStateMachine.__transitions of a stand-alone FSM
    t_state,          \* FiniteStateMachine.__state of a stand-alone FSM
    t_last,           \* outcome of the last transition() of the stand-alone FSM
    wr,               \* a stand-alone ProtoWriter flushing one buffer
    rd,               \* a stand-alone ProtoReader fed one frame in chunks
    t_call,           \* the transition() call in progress, statement by statement
    t_msg             \* the message the callbacks of the stand-alone FSM build

vars == <<fsm_state, socket, selector, proto_message, processed_count,
          reader, rx, last, tx, t_table, t_state, t_last, wr, rd,
          t_call, t_msg>>

clientVars == <<fsm_state, socket, selector, proto_message, processed_count,
                reader, rx, last, tx>>

fsmVars == <<t_table, t_state, t_last>>

ioVars == <<wr, rd>>

stepVars == <<t_call, t_msg>>

-----------------------------------------------------------------------------
(* Bounds of the model *)

\* largest number of responses the session processes
MaxProcessed == 6

\* largest number of bytes the transport accepts in one send
MaxSend == 2

\* largest number of bytes one receive delivers
MaxRecv == 3

-----------------------------------------------------------------------------
(* ClientState and ClientInput *)

ClientState == {"DISCONNECTED", "CONNECTED", "READY", "PLAYING"}

ClientInput == {"INIT", "START", "UPDATE", "STOP"}

\* values the "message" field of a decoded response can carry
ResponseKinds == ClientInput \cup {"BOGUS"}

\* player names handed to connect()
PlayerNames == {"Player1", "Player2"}

-----------------------------------------------------------------------------
(* FiniteStateMachine.transition *)

\* transition(input) on a machine in `state` with table `table`; guardResult is
\* what the entry's callback returns if it is called.  The result names the new
\* state, the exception raised ("none" if none) and the callback that was
\* called ("None" if none).
TransitionIgnoresGuard(table, state, input, guardResult) ==
    IF state \notin DOMAIN table \/ input \notin DOMAIN table[state]
    THEN [state |-> state, raised |-> "KeyError", called |-> "None"]
    ELSE [state |-> table[state][input].state, raised |-> "none",
          called |-> table[state][input].callback]

TransitionDefaultsMissing(table, state, input, guardResult) ==
    IF state \notin DOMAIN table
    THEN [state |-> state, raised |-> "KeyError", called |-> "None"]
    ELSE IF input \notin DOMAIN table[state]
    THEN [state |-> state, raised |-> "none", called |-> "None"]
    ELSE LET entry == table[state][input] IN
         [state |-> IF entry.callback = "None" \/ guardResult
                    THEN entry.state ELSE state,
          raised |-> "none", called |-> entry.callback]

Transition(table, state, input, guardResult) ==
    IF state \notin DOMAIN table \/ input \notin DOMAIN table[state]
    THEN [state |-> state, raised |-> "KeyError", called |-> "None"]
    ELSE LET entry == table[state][input]
             callback == entry.callback
         IN  IF (callback # "None" /\ guardResult) \/ callback = "None"
             THEN [state |-> entry.state, raised |-> "none", called |-> callback]
             ELSE [state |-> state, raised |-> "none", called |-> callback]

-----------------------------------------------------------------------------
(* ProtoMessage: the outbound messages *)

\* length of the serialized buffer of each outbound kind
BufLen(kind) ==
    CASE kind = "connect" -> 3
      [] kind = "ready"   -> 2
      [] kind = "input"   -> 3
      [] OTHER            -> 0

\* value of Client.__proto_message before connect()
NoMessage == [kind |-> "None", payload |-> <<>>, buflen |-> 0, offset |-> 0]

connect_message(player_name) ==
    [kind |-> "connect", payload |-> <<player_name>>,
     buflen |-> BufLen("connect"), offset |-> 0]

ready_message ==
    [kind |-> "ready", payload |-> <<>>, buflen |-> BufLen("ready"), offset |-> 0]

input_message(commands) ==
    [kind |-> "input", payload |-> commands, buflen |-> BufLen("input"), offset |-> 0]

\* ProtoMessage.reset(): the message is cleared once it is fully sent
ResetMessage(m) == [kind |-> "cleared", payload |-> <<>>, buflen |-> 0, offset |-> 0]

-----------------------------------------------------------------------------
(* ProtoWriter *)

\* ProtoWriter.write() on the buffer of message m when the send accepts k
\* bytes: the send starts at the offset and moves it by k
WriterWriteRestarts(m, k) == [m EXCEPT !.offset = k]

WriterWrite(m, k) == [m EXCEPT !.offset = @ + k]

\* write() returns true: the whole buffer was sent
DoneWriting(m) == m.offset = m.buflen

-----------------------------------------------------------------------------
(* The Client's transition table and guards *)

ClientTransitionsStopToConnected ==
    [DISCONNECTED |-> [INIT |-> [state |-> "CONNECTED", callback |-> "transition_connected"]],
     CONNECTED    |-> [START |-> [state |-> "PLAYING", callback |-> "transition_playing"]],
     PLAYING      |-> [UPDATE |-> [state |-> "PLAYING", callback |-> "transition_playing"],
                       STOP   |-> [state |-> "CONNECTED", callback |-> "None"]]]

ClientTransitions ==
    [DISCONNECTED |-> [INIT |-> [state |-> "CONNECTED", callback |-> "transition_connected"]],
     CONNECTED    |-> [START |-> [state |-> "PLAYING", callback |-> "transition_playing"]],
     PLAYING      |-> [UPDATE |-> [state |-> "PLAYING", callback |-> "transition_playing"],
                       STOP   |-> [state |-> "DISCONNECTED", callback |-> "None"]]]

\* message built by Client.transition_connected
transition_connected_builds_input == input_message(<<"FORWARD", "LEFT", "FIRE">>)

transition_connected == ready_message

\* message built by Client.transition_playing
transition_playing_no_commands == input_message(<<>>)

transition_playing == input_message(<<"FORWARD", "LEFT", "FIRE">>)

\* both guards end with "return True"
GuardReturn(callback) == TRUE

\* Client.__proto_message after the callback `called` ran
AfterCallback(called, m) ==
    CASE called = "transition_connected" -> transition_connected
      [] called = "transition_playing"   -> transition_playing
      [] OTHER                           -> m

-----------------------------------------------------------------------------
(* Framing of the responses: a fixed-size length header, then the payload *)

\* size of the length header, in bytes
HeaderLen == 2

\* serialized payload of the response {"message": kind}
Payload(kind) ==
    CASE kind = "INIT"   -> <<1>>
      [] kind = "START"  -> <<2, 0>>
      [] kind = "UPDATE" -> <<3>>
      [] kind = "STOP"   -> <<4, 0>>
      [] OTHER           -> <<9>>

\* the big-endian length header
Header(n) == <<n \div 256, n % 256>>

HeaderValue(h) == h[1] * 256 + h[2]

Frame(kind) == Header(Len(Payload(kind))) \o Payload(kind)

\* the "message" field of the dictionary a payload parses to
Decode(payload) ==
    IF \E k \in ResponseKinds : Payload(k) = payload
    THEN CHOOSE k \in ResponseKinds : Payload(k) = payload
    ELSE "BOGUS"

\* whether the decode buffer holds a complete frame
FrameComplete(buf) ==
    /\ Len(buf) >= HeaderLen
    /\ Len(buf) >= HeaderLen + HeaderValue(SubSeq(buf, 1, HeaderLen))

\* ProtoReader after construction and after reset()
FreshReader == [buf |-> <<>>, obj |-> "None"]

\* ProtoReader.read() with `chunk` the bytes the receive obtained: the reader
\* afterwards; read() returns TRUE iff its obj is set
ReaderReadForgets(r, chunk) ==
    IF FrameComplete(chunk)
    THEN [buf |-> chunk,
          obj |-> Decode(SubSeq(chunk, HeaderLen + 1,
                                HeaderLen + HeaderValue(SubSeq(chunk, 1, HeaderLen))))]
    ELSE [buf |-> chunk, obj |-> "None"]

ReaderRead(r, chunk) ==
    LET buf == r.buf \o chunk IN
    IF FrameComplete(buf)
    THEN [buf |-> buf,
          obj |-> Decode(SubSeq(buf, HeaderLen + 1,
                                HeaderLen + HeaderValue(SubSeq(buf, 1, HeaderLen))))]
    ELSE [buf |-> buf, obj |-> "None"]

\* largest number of bytes the decode buffer holds when the server sends
MaxBuffered == 4

-----------------------------------------------------------------------------
(* Exceptions *)

\* what a receive can raise on a readable event; RuntimeError is the reader's
\* report of a receive of zero bytes (peer closed)
ReadFaults == {"RuntimeError", "ConnectionResetError", "TimeoutError"}

\* what a send can raise on a writable event
WriteFaults == {"ConnectionRefusedError", "ConnectionResetError", "BrokenPipeError"}

\* the except clause of Client.tick
CaughtInTickAll ==
    {"RuntimeError", "ConnectionRefusedError", "ConnectionResetError",
     "KeyError", "ValueError"}

CaughtInTick == {"RuntimeError", "ConnectionRefusedError", "ConnectionResetError"}

\* ClientInput(value): the enum lookup
ClientInputRaises(kind) == IF kind \in ClientInput THEN "none" ELSE "ValueError"

-----------------------------------------------------------------------------
(* The selector *)

FreshSelector == [closed |-> FALSE, registered |-> FALSE, events |-> {}]

ClosedSelector == [closed |-> TRUE, registered |-> FALSE, events |-> {}]

\* selector.get_map() is falsy: the map is None (closed) or empty
NoRegistrationOnlyClosed(sel) == sel.closed

NoRegistration(sel) == sel.closed \/ ~sel.registered

\* __set_read_mode / __set_write_mode
set_read_mode_keeps_interest(sel) == sel

set_read_mode(sel) == [sel EXCEPT !.events = {"READ"}]

set_write_mode_keeps_interest(sel) == sel

set_write_mode_adds_interest(sel) == [sel EXCEPT !.events = @ \cup {"WRITE"}]

set_write_mode(sel) == [sel EXCEPT !.events = {"WRITE"}]

\* the interest connect() registers the socket with
ConnectEventsReadWrite == {"READ", "WRITE"}

ConnectEvents == {"WRITE"}

\* outcome of the last call
Outcome(op, event, raised, recv, send, stopped) ==
    [op |-> op, event |-> event, raised |-> raised, recv |-> recv, send |-> send,
     stopped |-> stopped]

NoCall == Outcome("none", "none", "none", FALSE, FALSE, FALSE)

-----------------------------------------------------------------------------
(* Client.stop *)

\* the exception stop() raises: None has no close()
StopRaises(sock) == IF sock = "None" THEN "AttributeError" ELSE "none"

\* the selector after stop(): the socket is unregistered and, unless
\* socket.close() raised, the selector is closed; unregister(None) raises
\* ValueError, which is logged, and changes nothing
StopSelectorLeavesRegistration(sock, sel) == sel

StopSelector(sock, sel) ==
    IF StopRaises(sock) # "none" THEN sel ELSE ClosedSelector

\* the FSM state after stop()
StopFsmStateDisconnects(state) == "DISCONNECTED"

StopFsmState(state) == state

\* the body of stop(); closeFails: socket.close() raises OSError, which is
\* logged and suppressed
DoStop(closeFails) ==
    /\ selector' = StopSelector(socket, selector)
    /\ socket' = "None"
    /\ fsm_state' = StopFsmState(fsm_state)

\* an exception raised inside __process_events: the except clause of tick()
\* stops the session, anything else escapes tick()
TickRaise(event, exc, recv, send) ==
    IF exc \in CaughtInTick
    THEN /\ DoStop(FALSE)
         /\ last' = Outcome("tick", event, StopRaises(socket), recv, send, TRUE)
    ELSE /\ UNCHANGED <<fsm_state, socket, selector>>
         /\ last' = Outcome("tick", event, exc, recv, send, FALSE)

-----------------------------------------------------------------------------
(* The operations of the Client *)

\* Client.connect(player_name)
Connect(player_name) ==
    /\ IF socket = "None"
       THEN /\ last' = Outcome("connect", "none", "AttributeError", FALSE, FALSE, FALSE)
            /\ UNCHANGED <<proto_message, selector>>
       ELSE /\ proto_message' = connect_message(player_name)
            /\ IF selector.closed
               THEN /\ last' = Outcome("connect", "none", "ValueError", FALSE, FALSE, FALSE)
                    /\ UNCHANGED selector
               ELSE IF selector.registered
               THEN /\ last' = Outcome("connect", "none", "KeyError", FALSE, FALSE, FALSE)
                    /\ UNCHANGED selector
               ELSE /\ last' = Outcome("connect", "none", "none", FALSE, FALSE, FALSE)
                    /\ selector' = [closed |-> FALSE, registered |-> TRUE,
                                    events |-> ConnectEvents]
    /\ UNCHANGED <<fsm_state, socket, processed_count, reader, rx>>
    /\ UNCHANGED tx
    /\ UNCHANGED <<fsmVars, ioVars, stepVars>>

\* Client.stop()
Stop(closeFails) ==
    /\ DoStop(closeFails)
    /\ last' = Outcome("stop", "none", StopRaises(socket), FALSE, FALSE, TRUE)
    /\ UNCHANGED <<proto_message, processed_count, reader, rx>>
    /\ UNCHANGED tx
    /\ UNCHANGED <<fsmVars, ioVars, stepVars>>

\* Client.tick() without a registration: the error is logged
TickNotConnected ==
    /\ NoRegistration(selector)
    /\ last' = Outcome("tick", "not_connected", "none", FALSE, FALSE, FALSE)
    /\ UNCHANGED <<fsm_state, socket, selector, proto_message, processed_count,
                   reader, rx>>
    /\ UNCHANGED tx
    /\ UNCHANGED <<fsmVars, ioVars, stepVars>>

\* Client.tick() when select() reports no event
TickNoEvent ==
    /\ ~NoRegistration(selector)
    /\ last' = Outcome("tick", "none", "none", FALSE, FALSE, FALSE)
    /\ UNCHANGED <<fsm_state, socket, selector, proto_message, processed_count,
                   reader, rx>>
    /\ UNCHANGED tx
    /\ UNCHANGED <<fsmVars, ioVars, stepVars>>

\* Client.tick() on a readable event; the receive obtains the first k bytes
TickRead(k) ==
    /\ ~NoRegistration(selector)
    /\ "READ" \in selector.events
    /\ processed_count < MaxProcessed
    /\ k \in 1..Len(rx)
    /\ k <= MaxRecv
    /\ rx' = SubSeq(rx, k + 1, Len(rx))
    /\ LET r == ReaderRead(reader, SubSeq(rx, 1, k))
           t == Transition(ClientTransitions, fsm_state, r.obj, GuardReturn(r.obj))
       IN  IF r.obj = "None"
           THEN /\ reader' = r
                /\ last' = Outcome("tick", "READ", "none", TRUE, FALSE, FALSE)
                /\ UNCHANGED <<fsm_state, socket, selector, proto_message,
                               processed_count>>
           ELSE IF ClientInputRaises(r.obj) # "none"
           THEN /\ reader' = r
                /\ TickRaise("READ", ClientInputRaises(r.obj), TRUE, FALSE)
                /\ UNCHANGED <<proto_message, processed_count>>
           ELSE IF t.raised # "none"
           THEN /\ reader' = r
                /\ TickRaise("READ", t.raised, TRUE, FALSE)
                /\ UNCHANGED <<proto_message, processed_count>>
           ELSE /\ fsm_state' = t.state
                /\ proto_message' = AfterCallback(t.called, proto_message)
                /\ processed_count' = processed_count + 1
                /\ reader' = FreshReader
                /\ selector' = set_write_mode(selector)
                /\ last' = Outcome("tick", "READ", "none", TRUE, FALSE, FALSE)
                /\ UNCHANGED socket
    /\ UNCHANGED tx
    /\ UNCHANGED <<fsmVars, ioVars, stepVars>>

\* Client.tick() on a readable event whose receive raises
TickReadFault(exc) ==
    /\ ~NoRegistration(selector)
    /\ "READ" \in selector.events
    /\ exc \in ReadFaults
    /\ TickRaise("READ", exc, TRUE, FALSE)
    /\ UNCHANGED <<proto_message, processed_count, reader, rx>>
    /\ UNCHANGED tx
    /\ UNCHANGED <<fsmVars, ioVars, stepVars>>

\* Client.tick() on a writable event; the transport accepts k bytes
TickWrite(k) ==
    /\ ~NoRegistration(selector)
    /\ "WRITE" \in selector.events
    /\ IF proto_message.kind = "None"
       THEN /\ TickRaise("WRITE", "AttributeError", FALSE, FALSE)
            /\ UNCHANGED proto_message
       ELSE IF proto_message.buflen = 0
       THEN /\ k = 0
            /\ TickRaise("WRITE", "AssertionError", FALSE, FALSE)
            /\ UNCHANGED proto_message
       ELSE /\ k \in 0..(proto_message.buflen - proto_message.offset)
            /\ k <= MaxSend
            /\ last' = Outcome("tick", "WRITE", "none", FALSE, TRUE, FALSE)
            /\ IF DoneWriting(WriterWrite(proto_message, k))
               THEN /\ proto_message' = ResetMessage(WriterWrite(proto_message, k))
                    /\ selector' = set_read_mode(selector)
               ELSE /\ proto_message' = WriterWrite(proto_message, k)
                    /\ UNCHANGED selector
            /\ UNCHANGED <<fsm_state, socket>>
    /\ tx' = IF proto_message.buflen > 0 /\ DoneWriting(WriterWrite(proto_message, k))
             THEN proto_message.kind
             ELSE tx
    /\ UNCHANGED <<processed_count, reader, rx>>
    /\ UNCHANGED <<fsmVars, ioVars, stepVars>>

\* Client.tick() on a writable event whose send raises
TickWriteFault(exc) ==
    /\ ~NoRegistration(selector)
    /\ "WRITE" \in selector.events
    /\ proto_message.buflen > 0
    /\ exc \in WriteFaults
    /\ TickRaise("WRITE", exc, FALSE, TRUE)
    /\ UNCHANGED <<proto_message, processed_count, reader, rx>>
    /\ UNCHANGED tx
    /\ UNCHANGED <<fsmVars, ioVars, stepVars>>

\* the server sends one response
ServerSend(kind) ==
    /\ socket = "open"
    /\ selector.registered
    /\ rx = <<>>
    /\ Len(reader.buf) <= MaxBuffered
    /\ rx' = Frame(kind)
    /\ tx' = "none"
    /\ UNCHANGED <<fsm_state, socket, selector, proto_message, processed_count,
                   reader, last>>
    /\ UNCHANGED <<fsmVars, ioVars, stepVars>>

\* the response a server that follows the protocol gives to a message
Answer(kind) ==
    CASE kind = "connect" -> "INIT"
      [] kind = "ready"   -> "START"
      [] OTHER            -> "UPDATE"

\* the server answers the message it received whole
ServerAnswer ==
    /\ socket = "open"
    /\ selector.registered
    /\ tx # "none"
    /\ rx = <<>>
    /\ rx' = Frame(Answer(tx))
    /\ tx' = "none"
    /\ UNCHANGED <<fsm_state, socket, selector, proto_message, processed_count,
                   reader, last>>
    /\ UNCHANGED <<fsmVars, ioVars, stepVars>>

\* the one connect() of a session whose caller then only calls tick()
ConnectOnce ==
    /\ last = NoCall
    /\ \E n \in PlayerNames : Connect(n)

\* a tick() on a writable event whose send accepts at least one byte
TickWriteSome == \E k \in 1..MaxSend : TickWrite(k)

\* a tick() on a readable event
TickReadSome == \E k \in 1..MaxRecv : TickRead(k)

-----------------------------------------------------------------------------
(* A stand-alone FiniteStateMachine with an arbitrary table *)

FsmStates == {"A", "B"}

FsmInputs == {"x", "y"}

\* an entry has a next state and an optional callback
FsmEntries == [state : FsmStates, callback : {"None", "guard"}]

PartialFunctions(D, R) == UNION {[d -> R] : d \in SUBSET D}

FsmTables == PartialFunctions(FsmStates, PartialFunctions(FsmInputs, FsmEntries))

NoTransition ==
    [pre |-> "none", input |-> "none", guard |-> FALSE, raised |-> "none",
     called |-> "None", returned |-> "none"]

\* one call of transition(input) whose callback, if called, returns guardResult
FsmTransition(input, guardResult) ==
    /\ LET t == Transition(t_table, t_state, input, guardResult)
       IN  /\ t_state' = t.state
           /\ t_last' = [pre |-> t_state, input |-> input, guard |-> guardResult,
                         raised |-> t.raised, called |-> t.called,
                         returned |-> IF t.raised = "none" THEN t.state ELSE "none"]
    /\ UNCHANGED t_table
    /\ UNCHANGED <<clientVars, ioVars, stepVars>>

-----------------------------------------------------------------------------
(* FiniteStateMachine.transition, statement by statement *)

\* entries whose callback is one of the Client's guards
StepEntries ==
    [state : FsmStates,
     callback : {"None", "transition_connected", "transition_playing"}]

StepTables ==
    PartialFunctions(FsmStates, PartialFunctions(FsmInputs, StepEntries))
        \cup {ClientTransitions}

\* the states and inputs a table is exercised with
StepStates(table) == IF table = ClientTransitions THEN ClientState ELSE FsmStates

StepInputs(table) == IF table = ClientTransitions THEN ClientInput ELSE FsmInputs

NoStepCall ==
    [pc |-> "idle", pre |-> "none", input |-> "none", callback |-> "None",
     next |-> "none", guard |-> FALSE, ran |-> FALSE, seen |-> "none"]

\* the statement that follows statement pc of transition(): the callback is
\* called before the state is assigned, and the state is assigned unless the
\* callback returned false
StepOrderCommitsFirst(pc, callback, guardResult) ==
    CASE pc = "lookup" -> "commit"
      [] pc = "commit" -> IF callback = "None" THEN "return" ELSE "guard"
      [] OTHER         -> "return"

StepOrder(pc, callback, guardResult) ==
    CASE pc = "lookup" -> IF callback = "None" THEN "commit" ELSE "guard"
      [] pc = "guard"  -> IF guardResult THEN "commit" ELSE "return"
      [] OTHER         -> "return"

\* transition_entry = self.__transitions[self.__state][input]; callback = ...
StepLookup(input) ==
    /\ t_call.pc = "idle"
    /\ input \in StepInputs(t_table)
    /\ IF t_state \notin DOMAIN t_table \/ input \notin DOMAIN t_table[t_state]
       THEN /\ t_last' = [pre |-> t_state, input |-> input, guard |-> FALSE,
                          raised |-> "KeyError", called |-> "None",
                          returned |-> "none"]
            /\ t_call' = NoStepCall
       ELSE /\ t_call' = [pc |-> StepOrder("lookup", t_table[t_state][input].callback,
                                           FALSE),
                          pre |-> t_state, input |-> input,
                          callback |-> t_table[t_state][input].callback,
                          next |-> t_table[t_state][input].state,
                          guard |-> FALSE, ran |-> FALSE, seen |-> "none"]
            /\ UNCHANGED t_last
    /\ UNCHANGED <<t_table, t_state, t_msg>>
    /\ UNCHANGED <<clientVars, ioVars>>

\* callback(): the guard builds its message and returns guardResult
StepGuard(guardResult) ==
    /\ t_call.pc = "guard"
    /\ t_table = ClientTransitions => guardResult = GuardReturn(t_call.callback)
    /\ t_msg' = AfterCallback(t_call.callback, t_msg)
    /\ t_call' = [t_call EXCEPT !.pc = StepOrder("guard", t_call.callback, guardResult),
                                !.guard = guardResult, !.ran = TRUE,
                                !.seen = t_state]
    /\ UNCHANGED <<t_table, t_state, t_last>>
    /\ UNCHANGED <<clientVars, ioVars>>

\* self.__state = transition_entry["state"]
StepCommit ==
    /\ t_call.pc = "commit"
    /\ t_state' = t_call.next
    /\ t_call' = [t_call EXCEPT !.pc = StepOrder("commit", t_call.callback,
                                                 t_call.guard)]
    /\ UNCHANGED <<t_table, t_last, t_msg>>
    /\ UNCHANGED <<clientVars, ioVars>>

\* return self.__state
StepReturn ==
    /\ t_call.pc = "return"
    /\ t_last' = [pre |-> t_call.pre, input |-> t_call.input, guard |-> t_call.guard,
                  raised |-> "none",
                  called |-> IF t_call.ran THEN t_call.callback ELSE "None",
                  returned |-> t_state]
    /\ t_call' = [t_call EXCEPT !.pc = "idle"]
    /\ UNCHANGED <<t_table, t_state, t_msg>>
    /\ UNCHANGED <<clientVars, ioVars>>

-----------------------------------------------------------------------------
(* A stand-alone ProtoWriter and a stand-alone ProtoReader *)

\* largest buffer the stand-alone writer flushes
MaxBufLen == 5

\* largest number of bytes its transport accepts per send
MaxAccept == 3

\* largest number of sends that accept no byte
MaxZeroSends == 1

Min(a, b) == IF a < b THEN a ELSE b

\* the (buffer length, bytes accepted per send) pairs flushed
WriterCases ==
    ((1..MaxBufLen) \X (1..MaxAccept)) \cup {<<10000, 1500>>}

NoWriter == [msg |-> NoMessage, accept |-> 0, flushes |-> 0, zeros |-> 0,
             done |-> FALSE]

\* a writer handed a buffer of n bytes over a transport accepting a bytes
NewWriter(n, a) ==
    [msg |-> [kind |-> "input", payload |-> <<>>, buflen |-> n, offset |-> 0],
     accept |-> a, flushes |-> 0, zeros |-> 0, done |-> FALSE]

\* one writable event: the transport accepts min(accept, remaining) bytes
WriterFlush ==
    /\ wr.msg.buflen > 0
    /\ ~wr.done
    /\ LET m == WriterWrite(wr.msg, Min(wr.accept, wr.msg.buflen - wr.msg.offset))
       IN  wr' = [wr EXCEPT !.msg = m, !.flushes = @ + 1, !.done = DoneWriting(m)]
    /\ UNCHANGED rd
    /\ UNCHANGED <<clientVars, fsmVars, stepVars>>

\* one writable event on which the transport accepts no byte
WriterFlushZero ==
    /\ wr.msg.buflen > 0
    /\ ~wr.done
    /\ wr.zeros < MaxZeroSends
    /\ LET m == WriterWrite(wr.msg, 0)
       IN  wr' = [wr EXCEPT !.msg = m, !.zeros = @ + 1, !.done = DoneWriting(m)]
    /\ UNCHANGED rd
    /\ UNCHANGED <<clientVars, fsmVars, stepVars>>

NoFeed == [kind |-> "None", rest |-> <<>>, reader |-> FreshReader,
           chunks |-> <<>>, completions |-> 0]

\* the frame of the response {"message": kind}, not yet delivered
NewFeed(kind) ==
    [kind |-> kind, rest |-> Frame(kind), reader |-> FreshReader,
     chunks |-> <<>>, completions |-> 0]

\* one readable event: read() receives the next k bytes of the frame
ReaderConsume(k) ==
    /\ k \in 1..Len(rd.rest)
    /\ LET r == ReaderRead(rd.reader, SubSeq(rd.rest, 1, k))
       IN  rd' = [rd EXCEPT !.rest = SubSeq(rd.rest, k + 1, Len(rd.rest)),
                            !.reader = r,
                            !.chunks = Append(@, k),
                            !.completions = IF r.obj # "None" THEN @ + 1 ELSE @]
    /\ UNCHANGED wr
    /\ UNCHANGED <<clientVars, fsmVars, stepVars>>

-----------------------------------------------------------------------------
(* Specifications *)

InitClient ==
    /\ fsm_state = "DISCONNECTED"
    /\ socket = "open"
    /\ selector = FreshSelector
    /\ proto_message = NoMessage
    /\ processed_count = 0
    /\ reader = FreshReader
    /\ rx = <<>>
    /\ last = NoCall
    /\ tx = "none"

InitNoFsm ==
    /\ t_table = ClientTransitions
    /\ t_state = "DISCONNECTED"
    /\ t_last = NoTransition

InitNoIo ==
    /\ wr = NoWriter
    /\ rd = NoFeed

InitNoStep ==
    /\ t_call = NoStepCall
    /\ t_msg = NoMessage

Init ==
    /\ InitClient
    /\ InitNoFsm
    /\ InitNoIo
    /\ InitNoStep

Next ==
    \/ \E n \in PlayerNames : Connect(n)
    \/ \E f \in BOOLEAN : Stop(f)
    \/ TickNotConnected
    \/ TickNoEvent
    \/ \E k \in 1..MaxRecv : TickRead(k)
    \/ \E e \in ReadFaults : TickReadFault(e)
    \/ \E k \in 0..MaxSend : TickWrite(k)
    \/ \E e \in WriteFaults : TickWriteFault(e)
    \/ \E kind \in ResponseKinds : ServerSend(kind)

Spec == Init /\ [][Next]_vars

InitFsm ==
    /\ InitClient
    /\ t_table \in FsmTables
    /\ t_state \in FsmStates
    /\ t_last = NoTransition
    /\ InitNoIo
    /\ InitNoStep

NextFsm == \E i \in FsmInputs, g \in BOOLEAN : FsmTransition(i, g)

SpecFsm == InitFsm /\ [][NextFsm]_vars

InitSteps ==
    /\ InitClient
    /\ InitNoIo
    /\ t_table \in StepTables
    /\ t_state \in StepStates(t_table)
    /\ t_last = NoTransition
    /\ t_call = NoStepCall
    /\ t_msg = NoMessage

NextSteps ==
    \/ \E i \in FsmInputs \cup ClientInput : StepLookup(i)
    \/ \E g \in BOOLEAN : StepGuard(g)
    \/ StepCommit
    \/ StepReturn

SpecSteps == InitSteps /\ [][NextSteps]_vars

\* a session that is connected once and then only ticked, with a transport
\* that keeps accepting and delivering bytes and a server that answers
NextLive ==
    \/ ConnectOnce
    \/ TickNoEvent
    \/ \E k \in 0..MaxSend : TickWrite(k)
    \/ TickReadSome
    \/ ServerAnswer

SpecLive ==
    /\ Init
    /\ [][NextLive]_vars
    /\ WF_vars(ConnectOnce)
    /\ WF_vars(TickWriteSome)
    /\ WF_vars(TickReadSome)
    /\ WF_vars(ServerAnswer)

\* largest number of bytes one receive of the stand-alone reader delivers
MaxChunk == 4

InitIo ==
    /\ InitClient
    /\ InitNoFsm
    /\ \E c \in WriterCases : wr = NewWriter(c[1], c[2])
    /\ \E kind \in ResponseKinds : rd = NewFeed(kind)
    /\ InitNoStep

NextIo ==
    \/ WriterFlush
    \/ WriterFlushZero
    \/ \E k \in 1..MaxChunk : ReaderConsume(k)

SpecIo == InitIo /\ [][NextIo]_vars

-----------------------------------------------------------------------------
(* Properties of FiniteStateMachine.transition, checked under SpecFsm *)

\* (state, input) has an entry in the table
Declared(table, state, input) ==
    state \in DOMAIN table /\ input \in DOMAIN table[state]

\* C1: transition(input) on a declared (state, input) pair raises nothing; with
\* no callback, or with a callback that returns true, the state becomes the
\* declared next state; with a callback that returns false the state is left
\* unchanged; transition returns the resulting state.
C1_DeclaredTransition ==
    (t_last.pre # "none" /\ Declared(t_table, t_last.pre, t_last.input)) =>
        LET entry == t_table[t_last.pre][t_last.input] IN
        /\ t_last.raised = "none"
        /\ entry.callback = "None" => t_state = entry.state
        /\ (entry.callback # "None" /\ t_last.guard) => t_state = entry.state
        /\ (entry.callback # "None" /\ ~t_last.guard) => t_state = t_last.pre
        /\ t_last.returned = t_state

\* a callback returned false and vetoed a move to another state
C1_Witness ==
    /\ t_last.pre # "none"
    /\ Declared(t_table, t_last.pre, t_last.input)
    /\ t_table[t_last.pre][t_last.input].callback = "guard"
    /\ t_table[t_last.pre][t_last.input].state # t_last.pre
    /\ ~t_last.guard
    /\ t_state = t_last.pre

\* C2: transition(input) on an undeclared (state, input) pair raises the lookup
\* fault (KeyError), calls no callback and leaves the state as it was.
C2_UndeclaredTransition ==
    (t_last.pre # "none" /\ ~Declared(t_table, t_last.pre, t_last.input)) =>
        /\ t_last.raised = "KeyError"
        /\ t_last.called = "None"
        /\ t_state = t_last.pre

\* the state has entries, but none for the input
C2_Witness ==
    /\ t_last.pre \in DOMAIN t_table
    /\ t_last.input \notin DOMAIN t_table[t_last.pre]
    /\ t_last.raised = "KeyError"
    /\ t_state = t_last.pre

-----------------------------------------------------------------------------
(* Properties of the Client session, checked under Spec *)

\* the session has been stopped
Stopped == socket = "None"

\* the first k bytes of rx complete the decode of a response
Decodes(k) == k \in 1..Len(rx) /\ ReaderRead(reader, SubSeq(rx, 1, k)).obj # "None"

\* the response those bytes complete
Decoded(k) == ReaderRead(reader, SubSeq(rx, 1, k)).obj

\* C3: stop() on a session that is already stopped raises no error and leaves
\* the session state unchanged.
C3_StopIdempotent ==
    [][(Stopped /\ \E f \in BOOLEAN : Stop(f)) =>
          /\ last'.raised = "none"
          /\ UNCHANGED <<fsm_state, socket, selector, proto_message,
                         processed_count, reader>>]_vars

\* C4: every connection fault raised while tick() handles a ready event is
\* caught inside tick(): nothing escapes, and the session is stopped on return.
C4_FaultsCaught ==
    [][((\E e \in ReadFaults : TickReadFault(e))
          \/ (\E e \in WriteFaults : TickWriteFault(e))) =>
          /\ last'.raised = "none"
          /\ socket' = "None"
          /\ NoRegistration(selector')]_vars

\* C5: a lookup fault raised while tick() dispatches a decoded response (kind
\* not a ClientInput, or no transition declared for it in the current state)
\* escapes tick(), no stop() is made, and the FSM state, the in-flight message,
\* the selector's registration and the socket are as before the tick().
C5_LookupFaultPropagates ==
    [][\A k \in 1..MaxRecv :
          (/\ TickRead(k)
           /\ Decodes(k)
           /\ \/ Decoded(k) \notin ClientInput
              \/ fsm_state \notin {"DISCONNECTED", "CONNECTED", "PLAYING"}
              \/ <<fsm_state, Decoded(k)>> \notin
                     {<<"DISCONNECTED", "INIT">>, <<"CONNECTED", "START">>,
                      <<"PLAYING", "UPDATE">>, <<"PLAYING", "STOP">>}) =>
          /\ last'.raised = IF Decoded(k) \in ClientInput THEN "KeyError"
                                                         ELSE "ValueError"
          /\ ~last'.stopped
          /\ socket' = "open"
          /\ selector'.registered
          /\ UNCHANGED <<fsm_state, proto_message, selector, socket>>]_vars

\* tick() decoded UPDATE while CONNECTED and the KeyError escaped
C5_Witness ==
    /\ last.op = "tick"
    /\ last.raised = "KeyError"
    /\ fsm_state = "CONNECTED"
    /\ reader.obj = "UPDATE"
    /\ socket = "open"
    /\ selector.events = {"READ"}

\* C6: when tick() completes the decode of INIT while the FSM is DISCONNECTED,
\* the FSM becomes CONNECTED, the in-flight message is the unsent ready message
\* and the selector's interest is writable.
C6_ScenarioA ==
    [][\A k \in 1..MaxRecv :
          (TickRead(k) /\ Decodes(k) /\ Decoded(k) = "INIT"
             /\ fsm_state = "DISCONNECTED") =>
          /\ fsm_state' = "CONNECTED"
          /\ proto_message'.kind = "ready"
          /\ proto_message'.offset = 0
          /\ proto_message'.buflen > 0
          /\ selector'.registered
          /\ selector'.events = {"WRITE"}]_vars

\* the connect message was sent and INIT has just been dispatched
C6_Witness ==
    /\ last.op = "tick"
    /\ last.recv
    /\ processed_count = 1
    /\ fsm_state = "CONNECTED"
    /\ proto_message.kind = "ready"
    /\ selector.events = {"WRITE"}

\* C7: when tick() completes the decode of START while the FSM is CONNECTED,
\* the FSM becomes PLAYING, the in-flight message is an unsent input message
\* with a non-empty command list and the selector's interest is writable.
C7_ScenarioB ==
    [][\A k \in 1..MaxRecv :
          (TickRead(k) /\ Decodes(k) /\ Decoded(k) = "START"
             /\ fsm_state = "CONNECTED") =>
          /\ fsm_state' = "PLAYING"
          /\ proto_message'.kind = "input"
          /\ Len(proto_message'.payload) > 0
          /\ proto_message'.offset = 0
          /\ selector'.registered
          /\ selector'.events = {"WRITE"}]_vars

\* START has just been dispatched in CONNECTED
C7_Witness ==
    /\ last.op = "tick"
    /\ last.recv
    /\ processed_count = 2
    /\ fsm_state = "PLAYING"
    /\ proto_message.kind = "input"
    /\ proto_message.offset = 0
    /\ selector.events = {"WRITE"}

\* C8: in PLAYING a decoded UPDATE keeps the FSM in PLAYING and builds a new
\* input message, a decoded STOP moves it to DISCONNECTED; and the FSM state
\* only ever changes DISCONNECTED -> CONNECTED, CONNECTED -> PLAYING or
\* PLAYING -> DISCONNECTED.
C8_StateCycle ==
    [][/\ \A k \in 1..MaxRecv :
            (TickRead(k) /\ Decodes(k) /\ fsm_state = "PLAYING") =>
               /\ Decoded(k) = "UPDATE" =>
                     /\ fsm_state' = "PLAYING"
                     /\ proto_message'.kind = "input"
                     /\ proto_message'.offset = 0
               /\ Decoded(k) = "STOP" => fsm_state' = "DISCONNECTED"
       /\ fsm_state' # fsm_state =>
             <<fsm_state, fsm_state'>> \in
                 {<<"DISCONNECTED", "CONNECTED">>, <<"CONNECTED", "PLAYING">>,
                  <<"PLAYING", "DISCONNECTED">>}]_vars

\* INIT, START, UPDATE and STOP were dispatched in turn
C8_Witness ==
    /\ processed_count = 4
    /\ fsm_state = "DISCONNECTED"
    /\ last.op = "tick"
    /\ last.recv

\* C9: when stop() returns the session holds no socket and no registration;
\* from then on this stays so, and no tick() receives or sends: a partly sent
\* message and a partly decoded frame stay as they were.
C9_StoppedForGood ==
    [][/\ ((\E f \in BOOLEAN : Stop(f)) /\ last'.raised = "none") =>
             (socket' = "None" /\ NoRegistration(selector'))
       /\ Stopped =>
             /\ socket' = "None"
             /\ NoRegistration(selector')
             /\ (last'.op = "tick" /\ last' # last) =>
                   (~last'.recv /\ ~last'.send)
             /\ UNCHANGED <<proto_message, reader, fsm_state>>]_vars

\* a tick() after a stop() made while the message was partly sent
C9_Witness ==
    /\ Stopped
    /\ last.op = "tick"
    /\ last.event = "not_connected"
    /\ proto_message.offset > 0
    /\ proto_message.offset < proto_message.buflen

\* C10: stop(), called directly or from tick() on a connection fault, leaves
\* the FSM state as it was.
C10_StopKeepsFsmState ==
    [][((\E f \in BOOLEAN : Stop(f)) \/ (socket = "open" /\ socket' = "None")) =>
          fsm_state' = fsm_state]_vars

\* tick() stopped the session in PLAYING
C10_Witness ==
    /\ Stopped
    /\ last.op = "tick"
    /\ last.stopped
    /\ fsm_state = "PLAYING"

\* C11: whenever the socket is registered with the selector, its interest is
\* exactly readable or exactly writable, never both and never neither.
C11_OneInterest ==
    selector.registered => selector.events \in {{"READ"}, {"WRITE"}}

\* the interest was switched to readable after the connect message was sent
C11_Witness ==
    /\ selector.registered
    /\ selector.events = {"READ"}
    /\ last.op = "tick"
    /\ last.send
    /\ proto_message.kind = "cleared"

\* the first k bytes the transport accepts complete the send of the message
CompletesSend(k) ==
    /\ proto_message.buflen > 0
    /\ proto_message.offset + k = proto_message.buflen

\* C12: sends and receives alternate.  The interest goes from writable to
\* readable only in a tick() that flushes the rest of the in-flight message, and
\* from readable to writable only in a tick() that decodes and dispatches one
\* response; every completed send and every dispatched response makes that
\* switch.  While the interest is readable no message is partly sent, while it
\* is writable no frame is partly decoded, and the first completed send is that
\* of the connect message.
C12_Alternation ==
    [][/\ (selector.events = {"WRITE"} /\ selector'.events = {"READ"}) =>
             \E k \in 0..MaxSend : TickWrite(k) /\ CompletesSend(k)
       /\ (selector.events = {"READ"} /\ selector'.events = {"WRITE"}) =>
             \E k \in 1..MaxRecv :
                 TickRead(k) /\ Decodes(k) /\ processed_count' = processed_count + 1
       /\ (\E k \in 0..MaxSend : TickWrite(k) /\ CompletesSend(k)) =>
             /\ selector.events = {"WRITE"}
             /\ selector'.events = {"READ"}
             /\ processed_count = 0 => proto_message.kind = "connect"
       /\ processed_count' # processed_count =>
             /\ processed_count' = processed_count + 1
             /\ selector.events = {"READ"}
             /\ selector'.events = {"WRITE"}
       /\ (selector'.registered /\ "READ" \in selector'.events) =>
             proto_message'.offset = 0
       /\ (selector'.registered /\ "WRITE" \in selector'.events) =>
             reader' = FreshReader]_vars

\* the third send was completed after two dispatched responses
C12_Witness ==
    /\ processed_count = 2
    /\ selector.events = {"READ"}
    /\ last.op = "tick"
    /\ last.send
    /\ proto_message.kind = "cleared"

\* C13: a connect(identity) that returns leaves the FSM state as it was
\* (DISCONNECTED on a fresh session), makes the connect message carrying the
\* identity the in-flight message and registers the socket with write interest
\* only; the FSM state changes only in a tick() that completes the decode of a
\* response.
C13_ConnectFrame ==
    [][/\ \A n \in PlayerNames :
            (Connect(n) /\ last'.raised = "none") =>
               /\ fsm_state' = fsm_state
               /\ proto_message'.kind = "connect"
               /\ proto_message'.payload = <<n>>
               /\ proto_message'.offset = 0
               /\ selector'.registered
               /\ selector'.events = {"WRITE"}
       /\ fsm_state' # fsm_state =>
             \E k \in 1..MaxRecv : TickRead(k) /\ Decodes(k)]_vars

\* connect("Player2") has returned on a DISCONNECTED session
C13_Witness ==
    /\ last.op = "connect"
    /\ last.raised = "none"
    /\ fsm_state = "DISCONNECTED"
    /\ proto_message.kind = "connect"
    /\ proto_message.payload = <<"Player2">>
    /\ selector.events = {"WRITE"}

\* C16: tick() on a session without a registration (never connected, or
\* stopped) logs the error and returns: it makes no select(), raises nothing,
\* receives and sends nothing and changes no state of the session.
C16_TickNotConnected ==
    [][((selector.closed \/ ~selector.registered)
          /\ last'.op = "tick" /\ last' # last) =>
          /\ last'.event = "not_connected"
          /\ last'.raised = "none"
          /\ ~last'.recv
          /\ ~last'.send
          /\ ~last'.stopped
          /\ UNCHANGED <<fsm_state, socket, selector, proto_message,
                         processed_count, reader, rx>>]_vars

\* a tick() after the session was stopped by a tick()
C16_Witness ==
    /\ last.op = "tick"
    /\ last.event = "not_connected"
    /\ selector.closed
    /\ socket = "None"
    /\ processed_count > 0

\* C17: whenever tick() can handle a writable event the in-flight message has a
\* non-empty buffer, so the assertion of __process_events holds; also after a
\* transition without a guard, which builds no message.
C17_AssertHolds ==
    (~NoRegistration(selector) /\ "WRITE" \in selector.events) =>
        (proto_message.kind # "None" /\ proto_message.buflen > 0)

\* selector.unregister(socket) raises in stop(): nothing is registered, the
\* selector is closed or the socket is None
UnregisterRaises(sock, sel) == sock = "None" \/ sel.closed \/ ~sel.registered

\* socket.close() raises in stop(): OSError from the socket, or AttributeError
\* because the socket is None
CloseRaises(sock, closeFails) == closeFails \/ sock = "None"

\* C18: a stop() in which the unregistration fails or the close of the socket
\* fails still releases the selector, drops the socket and raises nothing.
C18_IndependentRelease ==
    [][\A f \in BOOLEAN :
          (Stop(f) /\ (UnregisterRaises(socket, selector) \/ CloseRaises(socket, f))) =>
             /\ last'.raised = "none"
             /\ socket' = "None"
             /\ selector'.closed]_vars

-----------------------------------------------------------------------------
(* Properties of the writer and the reader, checked under SpecIo *)

\* the number of sends of `a` bytes a buffer of n bytes takes
Ceil(n, a) == (n + a - 1) \div a

\* C14: while a buffer of N bytes is flushed over a transport that accepts
\* min(K, remaining) bytes per send, the send offset never decreases and never
\* exceeds N, a send of zero bytes leaves it unchanged, and the write is
\* reported complete at the ceil(N/K)-th such flush and at no earlier one
\* (7 for N = 10000, K = 1500).
C14_WriterProgress ==
    [][/\ wr'.msg.offset >= wr.msg.offset
       /\ wr'.msg.offset <= wr'.msg.buflen
       /\ WriterFlushZero => (wr'.msg.offset = wr.msg.offset /\ ~wr'.done)
       /\ WriterFlush =>
             (wr'.done <=> wr'.flushes = Ceil(wr.msg.buflen, wr.accept))
       /\ (wr'.done /\ wr.msg.buflen = 10000 /\ wr.accept = 1500) =>
             wr'.flushes = 7]_vars

\* the 10000-byte buffer was reported complete at the 7th flush
C14_Witness ==
    /\ wr.msg.buflen = 10000
    /\ wr.accept = 1500
    /\ wr.done
    /\ wr.flushes = 7
    /\ wr.zeros = 1

\* C15: a frame fed to the reader in chunks of any sizes, one read() per
\* chunk, is reported incomplete for every chunk but the last and complete on
\* the last one, exactly once, and the decoded object is the one encoded.
C15_ReaderRoundTrip ==
    /\ rd.rest # <<>> => (rd.reader.obj = "None" /\ rd.completions = 0)
    /\ (rd.kind # "None" /\ rd.rest = <<>>) =>
          (rd.completions = 1 /\ rd.reader.obj = rd.kind)

\* a frame delivered byte by byte, the length header cut in two
C15_Witness ==
    /\ rd.kind = "START"
    /\ rd.chunks = <<1, 1, 1, 1>>
    /\ rd.rest = <<>>
    /\ rd.reader.obj = "START"

-----------------------------------------------------------------------------
(* Order of the statements of transition(), checked under SpecSteps *)

\* the kind of message a guard builds
GuardMessageKind(callback) ==
    IF callback = "transition_connected" THEN "ready" ELSE "input"

\* C19: in a transition with a guard, the guard runs while the FSM is still in
\* the state the call started in; when the state is assigned, and whenever the
\* call has moved the FSM, the guard's message (ready for transition_connected,
\* input for transition_playing) is already the in-flight message; a guard
\* that returns false has built its message although the state is unchanged.
C19_GuardBeforeCommit ==
    [][/\ (\E g \in BOOLEAN : StepGuard(g)) =>
             /\ t_state = t_call.pre
             /\ ~t_call.ran
             /\ t_state' = t_state
             /\ t_msg'.kind = GuardMessageKind(t_call.callback)
       /\ (StepCommit /\ t_call.callback # "None") =>
             /\ t_call.ran
             /\ t_call.seen = t_call.pre
             /\ t_msg.kind = GuardMessageKind(t_call.callback)
             /\ t_msg' = t_msg
       /\ (StepReturn /\ t_call.callback # "None") =>
             /\ t_call.ran
             /\ t_msg.kind = GuardMessageKind(t_call.callback)
             /\ t_state = IF t_call.guard THEN t_call.next ELSE t_call.pre]_vars

\* a guard that returned false has built the ready message; the state stayed
C19_Witness ==
    /\ t_call.pc = "return"
    /\ t_call.callback = "transition_connected"
    /\ t_call.ran
    /\ ~t_call.guard
    /\ t_call.next # t_call.pre
    /\ t_state = t_call.pre
    /\ t_msg.kind = "ready"

-----------------------------------------------------------------------------
(* Progress of the session loop, checked under SpecLive *)

WriteInterest == selector.registered /\ selector.events = {"WRITE"}

ReadInterest == selector.registered /\ selector.events = {"READ"}

\* C20: a session that is connected and then ticked for ever, over a transport
\* that keeps accepting and delivering bytes and with a server that answers
\* connect with INIT, ready with START and input with UPDATE, reaches PLAYING;
\* every write interest is followed by a read interest (the send completes)
\* and, while fewer than MaxProcessed responses were processed, every read
\* interest is followed by a write interest (a response is dispatched).
C20_Progress ==
    /\ <>(fsm_state = "PLAYING")
    /\ [](WriteInterest => <>ReadInterest)
    /\ []((ReadInterest /\ processed_count < MaxProcessed) => <>WriteInterest)

\* the session is PLAYING and waits for the answer to its second input message
C20_Witness ==
    /\ fsm_state = "PLAYING"
    /\ processed_count = 3
    /\ ReadInterest
    /\ tx = "input"

====
